---- MODULE Spec2Model ----
(***************************************************************************)
(* Model of script.js of the tabbed menu page: the tab buttons, the menu   *)
(* items and the simulated REST call (isLoading flag, one-shot timer,      *)
(* random delay, random outcome, status bar).                              *)
(*                                                                         *)
(* JavaScript runs every event handler to completion on one thread.  The   *)
(* two handlers that touch the loading state are modelled statement group  *)
(* by statement group, with pc naming the position inside the running      *)
(* handler; a new handler (click or timer callback) starts only at         *)
(* pc = "idle", which is the event loop taking its next task.              *)
(*                                                                         *)
(* clicks, log, before and the req field of a timer are history: every     *)
(* menu click gets the next number, log records what the status bar was    *)
(* told about which click, and before holds, while a call runs, the        *)
(* controller state in which it was accepted.                              *)
(*                                                                         *)
(* index.html is not part of the sources: the page is taken to hold one    *)
(* .tab-button and one .tab-content per tab id; InitialMarkups lists the    *)
(* placements of class active the script is started on.                    *)
(***************************************************************************)
EXTENDS Integers, Sequences, FiniteSets

\* ---- bounds of the model
MaxClicks == 3      \* menu-item clicks explored
NumItems == 2       \* distinct data-item values explored
RandDenom == 10     \* Math.random() returns r / RandDenom, r in 0 .. RandDenom - 1

\* ---- constants of the program
NumTabs == 3            \* tab1, tab2, tab3
DelayBase == 1000       \* Math.random() * 2000 + 1000
DelaySpan == 2000
FailNum == 1            \* Math.random() > 0.1, as the fraction FailNum / FailDen
FailDen == 10

Items == 1 .. NumItems
Tabs == 1 .. NumTabs
Randoms == 0 .. (RandDenom - 1)

VARIABLES
    currentTab,     \* let currentTab
    isLoading,      \* let isLoading
    status,         \* #statusMessage: text (kind, arg) and class (type)
    menuDisabled,   \* the disabled property of the .menu-item elements
    timers,         \* pending setTimeout timers with their closures
    pc,             \* position inside the running handler, "idle" between handlers
    cur,            \* itemName of the running simulateRestApiCall / callback
    draw,           \* numerator of the Math.random() value held by the running callback
    activeButtons,  \* data-tab of the .tab-button elements carrying class active
    activeContents, \* id of the .tab-content elements carrying class active
    before,         \* history: the controller state in which the running call was accepted
    clicks,         \* history: number of menu clicks handled
    log             \* history: request notifications written to the status bar

vars == <<currentTab, isLoading, status, menuDisabled, timers, pc, cur,
          draw, activeButtons, activeContents, before, clicks, log>>

\* the tab markup of the page
page == <<activeButtons, activeContents>>

NoCall == [req |-> 0, item |-> 0]

\* the .tab-button elements (by data-tab) and the .tab-content elements (by id)
TabButtons == Tabs
TabContents == Tabs

\* class active in the markup the script starts on: on no element, on the
\* elements of tab1 (the default currentTab), or on elements that do not match
InitialMarkups == {<<{}, {}>>, <<{1}, {1}>>, <<{1, 2}, {3}>>}

\* what getCurrentTabInfo reports, with the timers and the menu items' state
Controller ==
    [isLoading |-> isLoading, timers |-> timers,
     menuDisabled |-> menuDisabled, currentTab |-> currentTab]

NoSnapshot == [isLoading |-> FALSE, timers |-> {}, menuDisabled |-> FALSE, currentTab |-> 0]

\* ---- status bar messages (updateStatusMessage(message, type))
Status(kind, type, arg) == [kind |-> kind, type |-> type, arg |-> arg]

ReadyStatus == Status("ready", "", 0)
SwitchedStatus(tabId) == Status("switched", "success", tabId)
WaitStatus == Status("wait", "error", 0)
BusyStatus == Status("busy", "error", 0)
LoadingStatus_NoName(itemName) == Status("calling", "loading", 0)

LoadingStatus(itemName) == Status("calling", "loading", itemName)
SuccessStatus(itemName) == Status("successful", "success", itemName)
ErrorStatus(itemName) == Status("failed", "error", itemName)

Event(kind, req, item) == [kind |-> kind, req |-> req, item |-> item]

\* ---- pure parts of simulateRestApiCall
\* const delay = Math.random() * 2000 + 1000, truncated by setTimeout
Delay_NoBase(r) == (r * DelaySpan) \div RandDenom

Delay(r) == (r * DelaySpan) \div RandDenom + DelayBase

\* const success = Math.random() > 0.1
Success_Inverted(r) == r * FailDen > (FailDen - FailNum) * RandDenom

Success(r) == r * FailDen > FailNum * RandDenom

\* switchToTab: classList.remove('active') on every element of the kind, then
\* classList.add('active') on the element of tabId, if the page has it
SwitchActive_KeepOthers(active, present, tabId) == active \cup ({tabId} \cap present)

SwitchActive(active, present, tabId) == (active \ present) \cup ({tabId} \cap present)

\* if (isLoading) of the tab button's click handler
TabBlocked_Never == FALSE

TabBlocked == isLoading

\* disableMenuItems(disabled): item.disabled = disabled on every .menu-item
DisableMenuItems_Skipped(disabled) == menuDisabled

DisableMenuItems_Always(disabled) == TRUE

DisableMenuItems(disabled) == disabled

\* if (isLoading) of the menu item's click handler
ClickBlocked_Never == FALSE

ClickBlocked == isLoading

\* setTimeout is one-shot: a timer that fires leaves the list of active timers
Expire_Repeating(t) == timers

Expire(t) == timers \ {t}

Init ==
    /\ currentTab = 1
    /\ isLoading = FALSE
    /\ status = ReadyStatus
    /\ menuDisabled = FALSE
    /\ timers = {}
    /\ pc = "idle"
    /\ cur = NoCall
    /\ draw = 0
    /\ \E m \in InitialMarkups : activeButtons = m[1] /\ activeContents = m[2]
    /\ before = NoSnapshot
    /\ clicks = 0
    /\ log = <<>>

\* click on a .tab-button with data-tab = targetTab
TabClick(targetTab) ==
    /\ pc = "idle"
    /\ IF TabBlocked
         THEN /\ status' = WaitStatus
              /\ UNCHANGED <<currentTab, page>>
         ELSE /\ currentTab' = targetTab
              /\ activeButtons' = SwitchActive(activeButtons, TabButtons, targetTab)
              /\ activeContents' = SwitchActive(activeContents, TabContents, targetTab)
              /\ status' = SwitchedStatus(targetTab)
    /\ UNCHANGED <<isLoading, menuDisabled, timers, pc, cur, draw, before, clicks, log>>

\* click on a .menu-item with data-item = itemName; when not blocked, the
\* first two statements of simulateRestApiCall
MenuClick(itemName) ==
    /\ pc = "idle"
    /\ clicks < MaxClicks
    /\ clicks' = clicks + 1
    /\ IF ClickBlocked
         THEN /\ status' = BusyStatus
              /\ log' = Append(log, Event("rejected", clicks + 1, itemName))
              /\ UNCHANGED <<isLoading, pc, cur, before>>
         ELSE /\ before' = Controller
              /\ isLoading' = TRUE
              /\ status' = LoadingStatus(itemName)
              /\ log' = Append(log, Event("accepted", clicks + 1, itemName))
              /\ pc' = "sim_disable"
              /\ cur' = [req |-> clicks + 1, item |-> itemName]
    /\ UNCHANGED <<currentTab, menuDisabled, timers, draw, page>>

\* simulateRestApiCall: disableMenuItems(true)
SimDisable ==
    /\ pc = "sim_disable"
    /\ menuDisabled' = DisableMenuItems(TRUE)
    /\ pc' = "sim_schedule"
    /\ UNCHANGED <<currentTab, isLoading, status, timers, cur, draw, page, before, clicks, log>>

\* simulateRestApiCall: draw the delay, setTimeout(callback, delay), return
SimSchedule ==
    /\ pc = "sim_schedule"
    /\ \E r \in Randoms :
         timers' = timers \cup {[req |-> cur.req, item |-> cur.item, delay |-> Delay(r)]}
    /\ pc' = "idle"
    /\ cur' = NoCall
    /\ UNCHANGED <<currentTab, isLoading, status, menuDisabled, draw, page, before, clicks, log>>

\* (the callback with isLoading = false moved ahead of the notification)
Fire_ResetFirst(t) ==
    /\ pc = "idle"
    /\ timers' = Expire(t)
    /\ \E r \in Randoms :
         /\ draw' = r
         /\ IF Success(r)
              THEN /\ status' = SuccessStatus(t.item)
                   /\ log' = Append(log, Event("succeeded", t.req, t.item))
              ELSE /\ status' = ErrorStatus(t.item)
                   /\ log' = Append(log, Event("failed", t.req, t.item))
    /\ isLoading' = FALSE
    /\ pc' = "cb_reset"
    /\ cur' = [req |-> t.req, item |-> t.item]
    /\ UNCHANGED <<currentTab, menuDisabled, page, before, clicks>>

\* the timer t fires: the callback draws the outcome and calls
\* handleApiSuccess or handleApiError
Fire(t) ==
    /\ pc = "idle"
    /\ timers' = Expire(t)
    /\ \E r \in Randoms :
         /\ draw' = r
         /\ IF Success(r)
              THEN /\ status' = SuccessStatus(t.item)
                   /\ log' = Append(log, Event("succeeded", t.req, t.item))
              ELSE /\ status' = ErrorStatus(t.item)
                   /\ log' = Append(log, Event("failed", t.req, t.item))
    /\ pc' = "cb_reset"
    /\ cur' = [req |-> t.req, item |-> t.item]
    /\ UNCHANGED <<currentTab, isLoading, menuDisabled, page, before, clicks>>

TimerFire == \E t \in timers : Fire(t)

\* callback: isLoading = false
CbReset_Forgotten ==
    /\ pc = "cb_reset"
    /\ pc' = "cb_enable"
    /\ UNCHANGED <<currentTab, isLoading, status, menuDisabled, timers, cur, draw, page, before, clicks, log>>

CbReset ==
    /\ pc = "cb_reset"
    /\ isLoading' = FALSE
    /\ pc' = "cb_enable"
    /\ UNCHANGED <<currentTab, status, menuDisabled, timers, cur, draw, page, before, clicks, log>>

\* callback: disableMenuItems(false), return
CbEnable ==
    /\ pc = "cb_enable"
    /\ menuDisabled' = DisableMenuItems(FALSE)
    /\ pc' = "idle"
    /\ cur' = NoCall
    /\ draw' = 0
    /\ before' = NoSnapshot
    /\ UNCHANGED <<currentTab, isLoading, status, timers, page, clicks, log>>

Next ==
    \/ \E targetTab \in Tabs : TabClick(targetTab)
    \/ \E itemName \in Items : MenuClick(itemName)
    \/ SimDisable
    \/ SimSchedule
    \/ TimerFire
    \/ CbReset
    \/ CbEnable

Spec == Init /\ [][Next]_vars

\* A started handler runs to its end, and a scheduled timer fires; the user
\* is under no obligation to click.
FairSpec ==
    /\ Spec
    /\ WF_vars(SimDisable)
    /\ WF_vars(SimSchedule)
    /\ WF_vars(TimerFire)
    /\ WF_vars(CbReset)
    /\ WF_vars(CbEnable)

\* ---- reading the history
Outcomes == {"succeeded", "failed"}

LastKind == IF log = <<>> THEN "none" ELSE log[Len(log)].kind

LastReq == IF log = <<>> THEN 0 ELSE log[Len(log)].req

HasEvent(kinds, req) == \E i \in DOMAIN log : log[i].kind \in kinds /\ log[i].req = req

\* accepted requests whose outcome has not been delivered
InFlight == {q \in 1 .. clicks : HasEvent({"accepted"}, q) /\ ~HasEvent(Outcomes, q)}

\* a menu click is handled in this step
ClickStep == clicks' = clicks + 1

\* C1: at most one request is in flight at any instant (at most one accepted
\* request without outcome, at most one pending timer), and every menu click
\* handled while a request is in flight is rejected and leaves it in flight.
C1_SingleFlight ==
    /\ [](Cardinality(InFlight) <= 1 /\ Cardinality(timers) <= 1)
    /\ [][(InFlight # {} /\ ClickStep) =>
            /\ Len(log') = Len(log) + 1
            /\ log'[Len(log')].kind = "rejected"
            /\ InFlight' = InFlight]_vars

C1_Witness ==
    /\ LastKind = "rejected"
    /\ Cardinality(InFlight) = 1
    /\ Cardinality(timers) = 1

\* C2: between handlers (pc = "idle") isLoading is true exactly when one
\* completion timer is pending, and there is never more than one; before the
\* first click the controller is idle with no timer pending.
C2_BusyIffTimer ==
    /\ pc = "idle" => (isLoading <=> Cardinality(timers) = 1)
    /\ pc = "idle" => Cardinality(timers) <= 1
    /\ clicks = 0 => (~isLoading /\ timers = {})

C2_Witness ==
    /\ pc = "idle"
    /\ isLoading
    /\ \E t \in timers : t.req = 1 /\ timers = {t}

\* C3: a menu click handled while isLoading is true changes neither isLoading
\* nor the pending timers nor the in-flight request; the status bar shows the
\* busy advisory, which is none of the failed-outcome messages; and a rejected
\* click never has a timer or an outcome.
C3_RejectedUnchanged ==
    /\ [][(isLoading /\ ClickStep) =>
            /\ isLoading' = isLoading
            /\ timers' = timers
            /\ InFlight' = InFlight
            /\ <<pc', cur', menuDisabled', currentTab'>> = <<pc, cur, menuDisabled, currentTab>>
            /\ status' = BusyStatus
            /\ status' \notin {ErrorStatus(i) : i \in Items}
            /\ log' = Append(log, Event("rejected", clicks', log'[Len(log')].item))]_vars
    /\ [](\A q \in 1 .. clicks :
            HasEvent({"rejected"}, q) =>
                /\ ~HasEvent(Outcomes \cup {"accepted"}, q)
                /\ \A t \in timers : t.req # q
                /\ cur.req # q)

C3_Witness ==
    /\ HasEvent({"rejected"}, 2)
    /\ HasEvent(Outcomes, 1)
    /\ ~isLoading
    /\ pc = "idle"

\* C4: under FairSpec, whenever a request is accepted and without outcome, or
\* isLoading is true, a state follows in which every accepted request has its
\* outcome, isLoading is false and the callback has returned (the history only
\* grows, so an outcome once delivered stays delivered); a pending timer leaves
\* the timer list only by firing and delivering the outcome of its request.
C4_Completes ==
    /\ (isLoading \/ InFlight # {}) ~>
         (InFlight = {} /\ ~isLoading /\ pc = "idle" /\ timers = {})
    /\ [][Len(log') >= Len(log) /\ SubSeq(log', 1, Len(log)) = log]_vars
    /\ [][\A t \in timers \ timers' :
            /\ Len(log') = Len(log) + 1
            /\ log'[Len(log')].kind \in Outcomes
            /\ log'[Len(log')].req = t.req]_vars

C4_Witness ==
    /\ HasEvent({"accepted"}, MaxClicks)
    /\ HasEvent(Outcomes, MaxClicks)
    /\ ~isLoading
    /\ pc = "idle"

\* C5: every outcome in the history follows the acceptance of the same click
\* and carries its item name; no click has two outcomes; and once no request is
\* in progress every accepted click has its outcome.
C5_OneOutcome ==
    /\ \A i \in DOMAIN log :
         log[i].kind \in Outcomes =>
            /\ \E j \in 1 .. (i - 1) :
                 /\ log[j].kind = "accepted"
                 /\ log[j].req = log[i].req
                 /\ log[j].item = log[i].item
            /\ \A j \in DOMAIN log :
                 (j # i /\ log[j].kind \in Outcomes) => log[j].req # log[i].req
    /\ (pc = "idle" /\ timers = {}) =>
         \A q \in 1 .. clicks : HasEvent({"accepted"}, q) => HasEvent(Outcomes, q)

C5_Witness ==
    /\ \E i, j \in DOMAIN log :
         /\ i < j
         /\ log[i].kind \in Outcomes
         /\ log[j].kind \in Outcomes
         /\ log[i].item = log[j].item
    /\ pc = "idle"
    /\ timers = {}

\* the last request notification is an outcome and its callback has returned
AfterCompletion == pc = "idle" /\ LastKind \in Outcomes

\* C6: once a request has completed isLoading is false and no timer is pending;
\* the next menu click handled is accepted (isLoading becomes true), and when
\* its handler returns the timer of that click is pending.
C6_AcceptedAfterCompletion ==
    /\ [](AfterCompletion => (~isLoading /\ timers = {}))
    /\ [][(AfterCompletion /\ ClickStep) =>
            /\ isLoading'
            /\ log'[Len(log')].kind = "accepted"
            /\ log'[Len(log')].req = clicks']_vars
    /\ []((pc = "idle" /\ LastKind = "accepted") =>
            (isLoading /\ \E t \in timers : t.req = LastReq))

C6_Witness ==
    /\ pc = "idle"
    /\ LastKind = "accepted"
    /\ HasEvent(Outcomes, 1)
    /\ \E t \in timers : t.req = 2

\* C7: from the firing of the timer to the return of its callback no menu click
\* is handled; the outcome is drawn and written to the status bar while
\* isLoading is still true, and isLoading becomes false only afterwards, in the
\* callback that delivered the outcome.
C7_CompletionAtomic ==
    /\ [][pc # "idle" => ~ClickStep]_vars
    /\ [][(Len(log') > Len(log) /\ log'[Len(log')].kind \in Outcomes) =>
            (isLoading /\ isLoading' /\ pc' = "cb_reset")]_vars
    /\ [](pc = "cb_reset" => (isLoading /\ LastKind \in Outcomes /\ LastReq = cur.req))
    /\ [][(isLoading /\ ~isLoading') =>
            (pc = "cb_reset" /\ LastKind \in Outcomes /\ LastReq = cur.req /\ log' = log)]_vars
    /\ [](pc = "cb_enable" => (~isLoading /\ LastKind \in Outcomes /\ LastReq = cur.req))

C7_Witness ==
    /\ pc = "cb_reset"
    /\ isLoading
    /\ LastKind = "failed"
    /\ HasEvent({"rejected"}, 2)

\* C8: of two accepted clicks, the outcome of the one accepted first is in the
\* history before the acceptance of the second.
C8_OutcomesInOrder ==
    \A i, j \in DOMAIN log :
        (i < j /\ log[i].kind = "accepted" /\ log[j].kind = "accepted") =>
            \E k \in (i + 1) .. (j - 1) :
                log[k].kind \in Outcomes /\ log[k].req = log[i].req

C8_Witness ==
    \E i, j, k \in DOMAIN log :
        /\ i < j /\ j < k
        /\ log[i].kind = "accepted"
        /\ log[j].kind = "accepted"
        /\ log[k].kind \in Outcomes
        /\ log[k].req = log[j].req

\* C9 as stated: the success probability is a setting, and the outcome follows
\* it: set to 1.0 every completed operation succeeds, set to 0.0 every one
\* fails.  p is the setting in units of 1 / FailDen; a draw succeeds under p
\* when it falls in the upper p of the unit interval.
SettingSuccess(p, r) == r * FailDen >= (FailDen - p) * RandDenom

C9_ConfigurableProbability ==
    \A p \in {0, FailDen} :
        pc = "cb_reset" => (LastKind = "succeeded" <=> SettingSuccess(p, draw))

\* C9 (amended): the outcome is decided by the draw alone, against the fixed
\* threshold 0.1: the operation succeeds exactly when Math.random() > 0.1 and
\* fails otherwise, and the status bar shows the matching message.
C9_FixedThreshold ==
    pc = "cb_reset" =>
        /\ LastKind \in Outcomes
        /\ LastKind = "succeeded" <=> 10 * draw > RandDenom
        /\ LastKind = "failed" <=> 10 * draw <= RandDenom
        /\ status = IF 10 * draw > RandDenom
                      THEN SuccessStatus(cur.item) ELSE ErrorStatus(cur.item)

C9_Witness ==
    /\ pc = "cb_reset"
    /\ HasEvent({"succeeded"}, 1)
    /\ LastKind = "failed"
    /\ 10 * draw = RandDenom

\* C10: every pending completion timer has a delay d with 1000 <= d <= 3000,
\* and an accepted click whose handler has returned has its timer pending.
C10_DelayInRange ==
    /\ \A t \in timers : 1000 <= t.delay /\ t.delay <= 3000
    /\ (pc = "idle" /\ isLoading) => timers # {}

C10_Witness ==
    /\ \E t \in timers : t.delay = 1000
    /\ HasEvent(Outcomes, 1)
    /\ \E t \in timers : t.req = 2

\* two accepted clicks of the same item in the history, both with their outcome
RepeatedCycle ==
    \E i, j \in DOMAIN log :
        /\ i < j
        /\ log[i].kind = "accepted" /\ log[j].kind = "accepted"
        /\ log[i].item = log[j].item
        /\ HasEvent(Outcomes, log[i].req) /\ HasEvent(Outcomes, log[j].req)

\* C11: the step that ends a completion leaves the controller state
\* (isLoading, pending timers, disabled state of the menu items, currentTab)
\* equal to the state in which the click was accepted; that state is the same
\* in every cycle but for currentTab: not loading, no timer, items enabled.
C11_CycleRestoresState ==
    /\ [][(ClickStep /\ ~isLoading /\ isLoading') => before' = Controller]_vars
    /\ [][pc = "cb_enable" => (pc' = "idle" /\ Controller' = before)]_vars
    /\ []((pc # "idle" \/ isLoading) =>
            before = [isLoading |-> FALSE, timers |-> {},
                      menuDisabled |-> FALSE, currentTab |-> currentTab])
    /\ []((pc = "idle" /\ ~isLoading) => (timers = {} /\ ~menuDisabled))

C11_Witness ==
    /\ RepeatedCycle
    /\ pc = "idle"
    /\ Controller = [isLoading |-> FALSE, timers |-> {},
                     menuDisabled |-> FALSE, currentTab |-> 2]

\* C12: between handlers the menu items are disabled exactly when isLoading
\* is true; the handler that accepts a click returns with them disabled and
\* the completion callback returns with them enabled.
C12_DisabledIffLoading ==
    /\ [](pc = "idle" => (menuDisabled <=> isLoading))
    /\ [][(pc = "sim_schedule" /\ pc' = "idle") => menuDisabled']_vars
    /\ [][(pc = "cb_enable" /\ pc' = "idle") => ~menuDisabled']_vars
    /\ [][(menuDisabled # menuDisabled') => pc \in {"sim_disable", "cb_enable"}]_vars

C12_Witness ==
    /\ pc = "idle"
    /\ menuDisabled
    /\ isLoading
    /\ HasEvent(Outcomes, 1)
    /\ LastKind = "rejected"

\* a tab button's click handler runs in this step: a handler that starts and
\* returns between handlers without being a menu click
TabStep == pc = "idle" /\ pc' = "idle" /\ clicks' = clicks

\* C13: a tab click handled while isLoading leaves currentTab, the active
\* classes, isLoading and the pending timer as they are; a tab click handled
\* while not loading makes the clicked tab (the one the status bar names)
\* the current tab and leaves isLoading and the timers as they are.
C13_TabClickFrame ==
    /\ [][(TabStep /\ isLoading) =>
            /\ currentTab' = currentTab
            /\ page' = page
            /\ isLoading' /\ timers' = timers /\ Cardinality(timers') = 1
            /\ menuDisabled' = menuDisabled /\ log' = log
            /\ status' = WaitStatus]_vars
    /\ [][(TabStep /\ ~isLoading) =>
            /\ \E t \in Tabs :
                 /\ status' = [kind |-> "switched", type |-> "success", arg |-> t]
                 /\ currentTab' = t
            /\ ~isLoading' /\ timers' = timers /\ timers' = {}
            /\ menuDisabled' = menuDisabled /\ log' = log]_vars

C13_Witness ==
    /\ status = WaitStatus
    /\ isLoading
    /\ Cardinality(timers) = 1
    /\ currentTab = 2

\* the item names of the accepted clicks that have no outcome yet
InFlightItems ==
    {log[i].item : i \in {j \in DOMAIN log : log[j].kind = "accepted" /\ log[j].req \in InFlight}}

LoadingMessages == {[kind |-> "calling", type |-> "loading", arg |-> i] : i \in InFlightItems}

OutcomeMessages ==
    {[kind |-> "successful", type |-> "success", arg |-> i] : i \in InFlightItems}
        \cup {[kind |-> "failed", type |-> "error", arg |-> i] : i \in InFlightItems}

\* C14 as stated: while an accepted click has no outcome the status bar shows
\* the loading message naming its item, and the only message that replaces it
\* is the success or error message of that item.
C14_LoadingUntilOutcome ==
    /\ [](InFlight # {} => status \in LoadingMessages)
    /\ [][(InFlight # {} /\ status' # status) => status' \in OutcomeMessages]_vars

\* C14 (amended): while an accepted click has no outcome the status bar shows
\* the loading message naming its item or, once a click was handled in that
\* window, the advisory of that click ("please wait" of a tab button, "already
\* in progress" of a menu item, both of class error); the loading message is
\* replaced by nothing but these advisories and the outcome message, and the
\* outcome message that ends the window names the in-flight item.
C14_LoadingOrAdvisory ==
    /\ [](InFlight # {} => status \in LoadingMessages \cup {WaitStatus, BusyStatus})
    /\ []((InFlight # {} /\ pc # "idle") => status \in LoadingMessages)
    /\ [][(InFlight # {} /\ status' # status) =>
            \/ TabStep /\ status' = WaitStatus
            \/ ClickStep /\ status' = BusyStatus
            \/ InFlight' = {} /\ status' \in OutcomeMessages]_vars

C14_Witness ==
    /\ InFlight # {}
    /\ status = BusyStatus
    /\ pc = "idle"
    /\ HasEvent(Outcomes, 1)

\* exactly one tab button and one tab content are active, those of currentTab
ActiveIsCurrent == activeButtons = {currentTab} /\ activeContents = {currentTab}

\* C15: a tab click handled while not loading leaves exactly one tab button and
\* exactly one tab content with class active, both those of currentTab, and
\* no later step (tab click, menu click, timer) changes that.
C15_OneActiveTab ==
    /\ [][(TabStep /\ ~isLoading) =>
            /\ ActiveIsCurrent'
            /\ Cardinality(activeButtons') = 1
            /\ Cardinality(activeContents') = 1]_vars
    /\ [][ActiveIsCurrent => ActiveIsCurrent']_vars

C15_Witness ==
    /\ ActiveIsCurrent
    /\ currentTab = 3
    /\ status = WaitStatus
    /\ HasEvent(Outcomes, 1)

====
